---- MODULE Spec2Model ----
(***************************************************************************)
(* The command-line agent of app/main.py: the three tools (Read, Write,   *)
(* Bash), the dispatch by tool name, and the agent loop of main().         *)
(*                                                                         *)
(* Texts are sequences of one-character strings.  File paths are relative, *)
(* normalised texts whose components are separated by "/".  The platform   *)
(* is POSIX (os.linesep is "\n").                                          *)
(***************************************************************************)
EXTENDS Integers, Sequences, FiniteSets, TLC

VARIABLES
    pc,           \* the loop's state: AWAITING_MODEL, DISPATCHING_TOOLS, DONE, FAILED
    messages,     \* the conversation history (main.py: messages)
    tool_calls,   \* message.tool_calls of the batch being dispatched
    idx,          \* position of the for loop in tool_calls (1-based)
    result,       \* the value returned by execute_tool_call, not yet appended
    fs,           \* the filesystem: path text -> node
    stdout,       \* the texts printed on standard output, in order
    stderr,       \* the error messages printed on standard error, in order
    exit_status,  \* -1 while running, then the process exit status
    rounds,       \* number of calls of client.chat.completions.create
    executed,     \* history: every call of execute_tool_call, with its outcome
    sent          \* history: the arguments of every call of create

vars == <<pc, messages, tool_calls, idx, result, fs, stdout, stderr, exit_status,
          rounds, executed, sent>>

loopVars ==
    <<pc, messages, tool_calls, idx, result, stdout, stderr, exit_status, rounds, sent>>

----------------------------------------------------------------------------
(* Bounds of the model *)

MaxRounds == 2
MaxBatch == 2
MaxCalls == 2
MaxStrLen == 2

----------------------------------------------------------------------------
(* Texts *)

Min(S) == CHOOSE x \in S : \A y \in S : x <= y
Max(S) == CHOOSE x \in S : \A y \in S : x >= y

\* the texts over alphabet A of length at most n
TextsUpTo(A, n) == UNION {[1..k -> A] : k \in 0..n}

Whitespace == {" ", "\t", "\n", "\r", "\f"}

\* str.strip(): leading and trailing whitespace removed
Strip(s) ==
    LET keep == {i \in 1..Len(s) : s[i] \notin Whitespace}
    IN  IF keep = {} THEN <<>> ELSE SubSeq(s, Min(keep), Max(keep))

\* sep.join(parts)
RECURSIVE Join(_, _)
Join(parts, sep) ==
    IF parts = <<>> THEN <<>>
    ELSE IF Len(parts) = 1 THEN parts[1]
    ELSE parts[1] \o sep \o Join(Tail(parts), sep)

Digits == <<"0", "1", "2", "3", "4", "5", "6", "7", "8", "9">>

\* str(n) of a natural number
RECURSIVE NatToStr(_)
NatToStr(n) ==
    IF n < 10 THEN <<Digits[n + 1]>>
    ELSE NatToStr(n \div 10) \o <<Digits[(n % 10) + 1]>>

\* str(n) of an integer, as the f-string formats result.returncode
IntToStr(n) ==
    IF n < 0 THEN <<"-">> \o NatToStr(-n) ELSE NatToStr(n)

IsPrefix(p, s) ==
    /\ Len(p) <= Len(s)
    /\ SubSeq(s, 1, Len(p)) = p

\* text p occurs in text s
Contains(s, p) ==
    \E i \in 0..(Len(s) - Len(p)) : SubSeq(s, i + 1, i + Len(p)) = p

UpperLetters ==
    <<"A", "B", "C", "D", "E", "F", "G", "H", "I", "J", "K", "L", "M",
      "N", "O", "P", "Q", "R", "S", "T", "U", "V", "W", "X", "Y", "Z">>

LowerLetters ==
    <<"a", "b", "c", "d", "e", "f", "g", "h", "i", "j", "k", "l", "m",
      "n", "o", "p", "q", "r", "s", "t", "u", "v", "w", "x", "y", "z">>

LowerChar(c) ==
    IF \E i \in 1..26 : UpperLetters[i] = c
    THEN LowerLetters[CHOOSE i \in 1..26 : UpperLetters[i] = c]
    ELSE c

\* faulty variant: the name is compared in the case it came in
KeepCase(s) == s

\* str.lower()
Lower(s) == [i \in 1..Len(s) |-> LowerChar(s[i])]

----------------------------------------------------------------------------
(* JSON values and Python truthiness *)

JStr(s) == [t |-> "str", v |-> s]
JNum(s) == [t |-> "num", v |-> s]
PyNone == [t |-> "null", v |-> <<>>]

\* dict.get(key): the value, or None when the key is absent
Get(arguments, key) ==
    IF key \in DOMAIN arguments THEN arguments[key] ELSE PyNone

\* `not value` is false
Truthy(value) ==
    CASE value.t = "null" -> FALSE
      [] value.t = "str" -> value.v # <<>>
      [] OTHER -> value.v # <<"0">>

----------------------------------------------------------------------------
(* The filesystem: a function from the existing path texts to nodes.       *)
(* Every ancestor of an existing path is a directory.                      *)

DirNode == [kind |-> "dir", data |-> <<>>]
FileNode(data) == [kind |-> "file", data |-> data]

\* os.path.dirname of a normalised relative path: up to the last "/"
Dirname(path) ==
    LET cuts == {i \in 1..Len(path) : path[i] = "/"}
    IN  IF cuts = {} THEN <<>> ELSE SubSeq(path, 1, Max(cuts) - 1)

\* the proper ancestors of a path
Ancestors(path) ==
    {SubSeq(path, 1, i - 1) : i \in {j \in 1..Len(path) : path[j] = "/"}}

IsDir(f, path) == path \in DOMAIN f /\ f[path].kind = "dir"
IsFile(f, path) == path \in DOMAIN f /\ f[path].kind = "file"

Dirs(f) == {p \in DOMAIN f : f[p].kind = "dir"}

Put(f, path, node) ==
    [p \in DOMAIN f \cup {path} |-> IF p = path THEN node ELSE f[p]]

----------------------------------------------------------------------------
(* Newline translation of text-mode files (open() with newline=None) *)

linesep == <<"\n">>

\* on writing, each "\n" becomes os.linesep
WriteTranslate(content) ==
    Join([i \in 1..Len(content) |->
             IF content[i] = "\n" THEN linesep ELSE <<content[i]>>], <<>>)

\* on reading, "\r\n" and a lone "\r" become "\n" (universal newlines)
RECURSIVE ReadTranslate(_)
ReadTranslate(data) ==
    IF data = <<>> THEN <<>>
    ELSE IF data[1] = "\r"
         THEN IF Len(data) >= 2 /\ data[2] = "\n"
              THEN <<"\n">> \o ReadTranslate(SubSeq(data, 3, Len(data)))
              ELSE <<"\n">> \o ReadTranslate(Tail(data))
         ELSE <<data[1]>> \o ReadTranslate(Tail(data))

----------------------------------------------------------------------------
(* Outcomes of a tool: the returned text, or the raised error; and the     *)
(* filesystem it leaves                                                    *)

Ok(text, f) == [ok |-> TRUE, text |-> text, error |-> "", fs |-> f]
Fail(error, f) == [ok |-> FALSE, text |-> <<>>, error |-> error, fs |-> f]

\* how far the resolution of a path gets through its ancestors
Traverse(f, path) ==
    LET bad == {a \in Ancestors(path) : ~IsDir(f, a)}
    IN  IF bad = {} THEN "ok"
        ELSE LET first == CHOOSE a \in bad : \A b \in bad : Len(a) <= Len(b)
             IN  IF IsFile(f, first) THEN "ENOTDIR" ELSE "ENOENT"

(* Read *)

execute_read_tool(arguments, f) ==
    IF arguments.kind # "dict" THEN Fail("AttributeError", f)
    ELSE
    LET file_path == Get(arguments.fields, "file_path")
    IN  IF ~Truthy(file_path) THEN Fail("file_path parameter is missing", f)
        ELSE LET path == file_path.v
                 t == Traverse(f, path)
             IN  IF t = "ENOENT" \/ (t = "ok" /\ path \notin DOMAIN f)
                 THEN Fail("File not found", f)
                 ELSE IF t = "ENOTDIR" \/ IsDir(f, path)
                 THEN Fail("Error reading file", f)
                 ELSE Ok(ReadTranslate(f[path].data), f)

(* Write *)

\* faulty variant: os.mkdir, which creates the last directory only
mkdir_leaf(f, directory) ==
    IF directory \in DOMAIN f
    THEN [ok |-> IsDir(f, directory), fs |-> f]
    ELSE IF Traverse(f, directory) # "ok"
    THEN [ok |-> FALSE, fs |-> f]
    ELSE [ok |-> TRUE, fs |-> Put(f, directory, DirNode)]

\* os.makedirs(directory, exist_ok=True): fails when the directory or one of
\* its ancestors is a file, and otherwise leaves them all directories
makedirs(f, directory) ==
    LET chain == Ancestors(directory) \cup {directory}
    IN  IF \E d \in chain : IsFile(f, d)
        THEN [ok |-> FALSE, fs |-> f]
        ELSE [ok |-> TRUE,
              fs |-> [p \in DOMAIN f \cup chain |->
                         IF p \in chain THEN DirNode ELSE f[p]]]

\* faulty variant: open(file_path, 'a'), which keeps what the file holds
open_a(f, path) ==
    IF Traverse(f, path) # "ok" \/ IsDir(f, path)
    THEN [ok |-> FALSE, fs |-> f]
    ELSE [ok |-> TRUE,
          fs |-> IF path \in DOMAIN f THEN f ELSE Put(f, path, FileNode(<<>>))]

\* open(file_path, 'w'): creates the file or truncates it
open_w(f, path) ==
    IF Traverse(f, path) # "ok" \/ IsDir(f, path)
    THEN [ok |-> FALSE, fs |-> f]
    ELSE [ok |-> TRUE, fs |-> Put(f, path, FileNode(<<>>))]

\* file.write(content) on the open file
file_write(f, path, content) ==
    Put(f, path, FileNode(f[path].data \o WriteTranslate(content)))

SuccessfullyWroteTo ==
    <<"S", "u", "c", "c", "e", "s", "s", "f", "u", "l", "l", "y", " ",
      "w", "r", "o", "t", "e", " ", "t", "o", " ">>

\* faulty variant: content is looked at only once the file is open
execute_write_tool_late_check(arguments, f) ==
    IF arguments.kind # "dict" THEN Fail("AttributeError", f)
    ELSE
    LET file_path == Get(arguments.fields, "file_path")
        content == Get(arguments.fields, "content")
    IN  IF ~Truthy(file_path) THEN Fail("file_path parameter is missing", f)
        ELSE
        LET directory == Dirname(file_path.v)
            made == IF directory # <<>>
                    THEN makedirs(f, directory)
                    ELSE [ok |-> TRUE, fs |-> f]
        IN  IF ~made.ok THEN Fail("Error writing to file", f)
            ELSE
            LET opened == open_w(made.fs, file_path.v)
            IN  IF ~opened.ok THEN Fail("Error writing to file", made.fs)
                ELSE IF content = PyNone
                THEN Fail("content parameter is missing", opened.fs)
                ELSE IF content.t # "str"
                THEN Fail("TypeError: write() argument must be str", opened.fs)
                ELSE Ok(SuccessfullyWroteTo \o file_path.v,
                        file_write(opened.fs, file_path.v, content.v))

execute_write_tool(arguments, f) ==
    IF arguments.kind # "dict" THEN Fail("AttributeError", f)
    ELSE
    LET file_path == Get(arguments.fields, "file_path")
        content == Get(arguments.fields, "content")
    IN  IF ~Truthy(file_path) THEN Fail("file_path parameter is missing", f)
        ELSE IF content = PyNone THEN Fail("content parameter is missing", f)
        ELSE
        LET directory == Dirname(file_path.v)
            made == IF directory # <<>>
                    THEN makedirs(f, directory)
                    ELSE [ok |-> TRUE, fs |-> f]
        IN  IF ~made.ok THEN Fail("Error writing to file", f)
            ELSE
            LET opened == open_w(made.fs, file_path.v)
            IN  IF ~opened.ok THEN Fail("Error writing to file", made.fs)
                ELSE IF content.t # "str"
                THEN Fail("TypeError: write() argument must be str", opened.fs)
                ELSE Ok(SuccessfullyWroteTo \o file_path.v,
                        file_write(opened.fs, file_path.v, content.v))

(* Bash *)

ExitCodePrefix == <<"E", "x", "i", "t", " ", "c", "o", "d", "e", ":", " ">>

\* faulty variant: the joined output is not stripped
CombineOutputUnstripped(out, err, returncode) ==
    LET output_parts == (IF out # <<>> THEN <<out>> ELSE <<>>)
                        \o (IF err # <<>> THEN <<err>> ELSE <<>>)
        output == Join(output_parts, <<"\n">>)
    IN  IF returncode # 0
        THEN IF output # <<>>
             THEN ExitCodePrefix \o IntToStr(returncode) \o <<"\n">> \o output
             ELSE ExitCodePrefix \o IntToStr(returncode)
        ELSE output

\* the text built from the completed process
CombineOutput(out, err, returncode) ==
    LET output_parts == (IF out # <<>> THEN <<out>> ELSE <<>>)
                        \o (IF err # <<>> THEN <<err>> ELSE <<>>)
        output == Strip(Join(output_parts, <<"\n">>))
    IN  IF returncode # 0
        THEN IF output # <<>>
             THEN ExitCodePrefix \o IntToStr(returncode) \o <<"\n">> \o output
             ELSE ExitCodePrefix \o IntToStr(returncode)
        ELSE output

\* what the shell command does to the filesystem: it removes proc.removes
ProcessEffect(f, proc) ==
    LET gone == {p \in DOMAIN f :
                    \E r \in proc.removes : p = r \/ r \in Ancestors(p)}
    IN  [p \in DOMAIN f \ gone |-> f[p]]

\* faulty variant: a non-zero exit code raises, as subprocess.run(check=True)
execute_bash_tool_checked(arguments, proc, f) ==
    IF arguments.kind # "dict" THEN Fail("AttributeError", f)
    ELSE
    LET command == Get(arguments.fields, "command")
    IN  IF ~Truthy(command) THEN Fail("command parameter is missing", f)
        ELSE IF ~proc.launched \/ proc.returncode # 0
        THEN Fail("Error executing command", ProcessEffect(f, proc))
        ELSE Ok(CombineOutput(proc.stdout, proc.stderr, proc.returncode),
                ProcessEffect(f, proc))

\* proc is what subprocess.run meets: whether the process could be launched,
\* the text it writes on each stream, its exit code and its file removals
execute_bash_tool(arguments, proc, f) ==
    IF arguments.kind # "dict" THEN Fail("AttributeError", f)
    ELSE
    LET command == Get(arguments.fields, "command")
    IN  IF ~Truthy(command) THEN Fail("command parameter is missing", f)
        ELSE IF ~proc.launched THEN Fail("Error executing command", f)
        ELSE Ok(CombineOutput(proc.stdout, proc.stderr, proc.returncode),
                ProcessEffect(f, proc))

----------------------------------------------------------------------------
(* Dispatch by tool name *)

ReadNames ==
    {<<"r", "e", "a", "d">>,
     <<"r", "e", "a", "d", "f", "i", "l", "e">>,
     <<"r", "e", "a", "d", "_", "f", "i", "l", "e">>}

WriteNames ==
    {<<"w", "r", "i", "t", "e">>,
     <<"w", "r", "i", "t", "e", "f", "i", "l", "e">>,
     <<"w", "r", "i", "t", "e", "_", "f", "i", "l", "e">>}

BashNames ==
    {<<"b", "a", "s", "h">>,
     <<"s", "h", "e", "l", "l">>,
     <<"c", "o", "m", "m", "a", "n", "d">>,
     <<"r", "u", "n">>}

\* json.loads of the arguments string: the parsed value, or JSONDecodeError
json_loads(raw) ==
    IF raw.json = "malformed"
    THEN [ok |-> FALSE, value |-> [kind |-> "none", fields |-> <<>>]]
    ELSE [ok |-> TRUE, value |-> [kind |-> raw.json, fields |-> raw.fields]]

\* faulty variant: an unknown tool name is answered with a text
execute_tool_call_lenient(tool_call, proc, f) ==
    IF tool_call.type # "function" THEN Fail("Unsupported tool call type", f)
    ELSE
    LET function_name == Lower(tool_call.name)
        parsed == json_loads(tool_call.arguments)
    IN  IF ~parsed.ok THEN Fail("Failed to parse arguments", f)
        ELSE IF function_name \in ReadNames
        THEN execute_read_tool(parsed.value, f)
        ELSE IF function_name \in WriteNames
        THEN execute_write_tool(parsed.value, f)
        ELSE IF function_name \in BashNames
        THEN execute_bash_tool(parsed.value, proc, f)
        ELSE Ok(<<"?">>, f)

execute_tool_call(tool_call, proc, f) ==
    IF tool_call.type # "function" THEN Fail("Unsupported tool call type", f)
    ELSE
    LET function_name == Lower(tool_call.name)
        parsed == json_loads(tool_call.arguments)
    IN  IF ~parsed.ok THEN Fail("Failed to parse arguments", f)
        ELSE IF function_name \in ReadNames
        THEN execute_read_tool(parsed.value, f)
        ELSE IF function_name \in WriteNames
        THEN execute_write_tool(parsed.value, f)
        ELSE IF function_name \in BashNames
        THEN execute_bash_tool(parsed.value, proc, f)
        ELSE Fail("Unsupported function", f)

----------------------------------------------------------------------------
(* The inputs: what the model service may answer, what the filesystem      *)
(* holds at the start, and what a shell command may do                     *)

NoFields == [k \in {} |-> PyNone]

Dict(fields) == [json |-> "dict", fields |-> fields]
MalformedArguments == [json |-> "malformed", fields |-> NoFields]
ListArguments == [json |-> "list", fields |-> NoFields]

ToolCall(id, name, arguments) ==
    [id |-> id, type |-> "function", name |-> name, arguments |-> arguments]

PathF == <<"f">>
PathD == <<"d">>
PathDF == <<"d", "/", "f">>
PathDEF == <<"d", "/", "e", "/", "f">>

NameRead == <<"R", "e", "a", "d">>
NameREAD_FILE == <<"R", "E", "A", "D", "_", "F", "I", "L", "E">>
NameWrite == <<"W", "r", "i", "t", "e">>
NameWriteFile == <<"W", "r", "i", "t", "e", "F", "i", "l", "e">>
NameBash == <<"B", "a", "s", "h">>
NameRun == <<"r", "u", "n">>
NameFoo == <<"F", "o", "o">>

ReadCall(id, path) == ToolCall(id, NameRead, Dict([file_path |-> JStr(path)]))
WriteCall(id, path, content) ==
    ToolCall(id, NameWrite, Dict([file_path |-> JStr(path), content |-> content]))
BashCall(id) == ToolCall(id, NameBash, Dict([command |-> JStr(<<"c">>)]))

\* the tool requests the model service makes in the agent loop
ToolCalls ==
    {ReadCall(1, PathF),
     ToolCall(2, NameWriteFile,
              Dict([file_path |-> JStr(PathDF), content |-> JStr(<<"a">>)])),
     BashCall(3),
     ToolCall(1, NameFoo, Dict(NoFields)),
     ToolCall(2, NameREAD_FILE, MalformedArguments),
     ToolCall(3, NameWrite, Dict([file_path |-> JStr(PathF)]))}

\* the batches of tool requests of one assistant message
Batches == UNION {[1..k -> ToolCalls] : k \in 1..MaxBatch}

\* the texts of assistant messages
ContentsOfFinal == {PyNone, JStr(<<>>), JStr(<<"o", "k">>), JStr(<<"o", "\n">>)}
ContentsWithTools == {JStr(<<"o", "k">>)}

\* chat.choices[0].message
Messages ==
    [content : ContentsOfFinal, tool_calls : {<<>>}]
        \cup [content : ContentsWithTools, tool_calls : Batches]

\* args.p
Prompts == {<<"p">>}

NoProc ==
    [launched |-> FALSE, stdout |-> <<>>, stderr |-> <<>>, returncode |-> 0,
     removes |-> {}]

Proc(out, err, returncode, removes) ==
    [launched |-> TRUE, stdout |-> out, stderr |-> err, returncode |-> returncode,
     removes |-> removes]

\* what a shell command of the agent loop may do
Procs ==
    {Proc(<<"a", "\n">>, <<"b", "\n">>, 3, {PathD}),
     NoProc}

ProcsFor(tool_call, procs) ==
    IF Lower(tool_call.name) \in BashNames THEN procs ELSE {NoProc}

FsEmpty == [p \in {} |-> DirNode]

\* what the agent loop finds: nothing, or a file where Write needs a directory
InitialFilesystems ==
    {FsEmpty,
     Put(FsEmpty, PathD, FileNode(<<>>))}

----------------------------------------------------------------------------
(* The agent loop: main() *)

NoResult == PyNone

UserMessage(prompt) == [role |-> "user", content |-> JStr(prompt)]

\* faulty variant: the tool_calls key is never set
AssistantMessageNoCalls(message) ==
    [role |-> "assistant", content |-> message.content]

\* the dict appended for the assistant's message
AssistantMessage(message) ==
    IF message.tool_calls # <<>>
    THEN [role |-> "assistant", content |-> message.content,
          tool_calls |-> message.tool_calls]
    ELSE [role |-> "assistant", content |-> message.content]

\* faulty variant: every result carries the id of the batch's first request
ToolMessageFirstId(tool_call, res) ==
    [role |-> "tool", tool_call_id |-> tool_calls[1].id, content |-> res]

\* the dict appended for a tool result
ToolMessage(tool_call, res) ==
    [role |-> "tool", tool_call_id |-> tool_call.id, content |-> res]

\* faulty variant: the final text is stripped
FinalOutputStripped(content) ==
    IF Truthy(content) THEN Strip(content.v) ELSE <<>>

\* final_output
FinalOutput(content) ==
    IF Truthy(content) THEN content.v ELSE <<>>

\* print(text, end=""): what reaches standard output
WriteStdout(text) == Append(stdout, text)

Entry(tool_call, proc, r) ==
    [call |-> tool_call, proc |-> proc, before |-> fs,
     ok |-> r.ok, text |-> r.text, error |-> r.error]

\* one entry of TOOLS: a function declaration with its parameters
ToolDeclaration(name, properties, required) ==
    [type |-> "function", name |-> name, properties |-> properties,
     required |-> required]

TOOLS ==
    <<ToolDeclaration("Read", {"file_path"}, {"file_path"}),
      ToolDeclaration("Write", {"file_path", "content"}, {"file_path", "content"}),
      ToolDeclaration("Bash", {"command"}, {"command"})>>

\* faulty variant: only the last two turns are sent
CreateWindowed ==
    LET n == Len(messages)
        window == IF n > 2 THEN SubSeq(messages, n - 1, n) ELSE messages
    IN  sent' = Append(sent, [messages |-> window, tools |-> TOOLS])

\* client.chat.completions.create(model=..., messages=messages, tools=TOOLS)
Create == sent' = Append(sent, [messages |-> messages, tools |-> TOOLS])

\* the state of main() when the loop is entered, on one of the filesystems
Start(filesystems) ==
    /\ pc = "AWAITING_MODEL"
    /\ messages \in {<<UserMessage(p)>> : p \in Prompts}
    /\ tool_calls = <<>>
    /\ idx = 0
    /\ result = NoResult
    /\ fs \in filesystems
    /\ stdout = <<>>
    /\ stderr = <<>>
    /\ exit_status = -1
    /\ rounds = 0
    /\ executed = <<>>
    /\ sent = <<>>

Init == Start(InitialFilesystems)

\* faulty variant: the error is printed and the loop goes on (no sys.exit)
AbortWithoutExit(error) ==
    /\ pc' = "AWAITING_MODEL"
    /\ stderr' = Append(stderr, error)
    /\ exit_status' = exit_status

\* except Exception as e: print the error on standard error, sys.exit(1)
Abort(error) ==
    /\ pc' = "FAILED"
    /\ stderr' = Append(stderr, error)
    /\ exit_status' = 1

\* client.chat.completions.create raises
ModelRaises ==
    /\ pc = "AWAITING_MODEL"
    /\ rounds < MaxRounds
    /\ rounds' = rounds + 1
    /\ Create
    /\ Abort("model request failed")
    /\ UNCHANGED <<messages, tool_calls, idx, result, fs, stdout, executed>>

\* faulty variant: an empty assistant message is appended before the error
ModelAnswersNothingAppends ==
    /\ pc = "AWAITING_MODEL"
    /\ rounds < MaxRounds
    /\ rounds' = rounds + 1
    /\ Create
    /\ messages' = Append(messages, [role |-> "assistant", content |-> PyNone])
    /\ Abort("No choices in response")
    /\ UNCHANGED <<tool_calls, idx, result, fs, stdout, executed>>

\* the response carries no choices
ModelAnswersNothing ==
    /\ pc = "AWAITING_MODEL"
    /\ rounds < MaxRounds
    /\ rounds' = rounds + 1
    /\ Create
    /\ Abort("No choices in response")
    /\ UNCHANGED <<messages, tool_calls, idx, result, fs, stdout, executed>>

\* faulty variant: the text that comes with the tool requests is printed
RequestToolsAloud(responses) ==
    \E message \in responses :
        /\ pc = "AWAITING_MODEL"
        /\ rounds < MaxRounds
        /\ message.tool_calls # <<>>
        /\ rounds' = rounds + 1
        /\ Create
        /\ messages' = Append(messages, AssistantMessage(message))
        /\ tool_calls' = message.tool_calls
        /\ idx' = 1
        /\ pc' = "DISPATCHING_TOOLS"
        /\ stdout' = WriteStdout(FinalOutput(message.content))
        /\ UNCHANGED <<result, fs, stderr, exit_status, executed>>

\* the response's first choice, one of responses, asks for tools
RequestTools(responses) ==
    \E message \in responses :
        /\ pc = "AWAITING_MODEL"
        /\ rounds < MaxRounds
        /\ message.tool_calls # <<>>
        /\ rounds' = rounds + 1
        /\ Create
        /\ messages' = Append(messages, AssistantMessage(message))
        /\ tool_calls' = message.tool_calls
        /\ idx' = 1
        /\ pc' = "DISPATCHING_TOOLS"
        /\ UNCHANGED <<result, fs, stdout, stderr, exit_status, executed>>

ModelRequestsTools == RequestTools(Messages)

\* the response's first choice asks for no tool: the final answer
ModelAnswers ==
    \E message \in Messages :
        /\ pc = "AWAITING_MODEL"
        /\ rounds < MaxRounds
        /\ message.tool_calls = <<>>
        /\ rounds' = rounds + 1
        /\ Create
        /\ messages' = Append(messages, AssistantMessage(message))
        /\ stdout' = WriteStdout(FinalOutput(message.content))
        /\ pc' = "DONE"
        /\ exit_status' = 0
        /\ UNCHANGED <<tool_calls, idx, result, fs, stderr, executed>>

\* result = execute_tool_call(tool_call), which returns
ToolReturns ==
    /\ pc = "DISPATCHING_TOOLS"
    /\ result = NoResult
    /\ \E proc \in ProcsFor(tool_calls[idx], Procs) :
        LET r == execute_tool_call(tool_calls[idx], proc, fs)
        IN  /\ r.ok
            /\ executed' = Append(executed, Entry(tool_calls[idx], proc, r))
            /\ fs' = r.fs
            /\ result' = JStr(r.text)
            /\ UNCHANGED <<pc, messages, tool_calls, idx, stdout, stderr,
                           exit_status, rounds, sent>>

\* faulty variant: the error is handed back as the tool's result
ToolRaisesSoftly ==
    /\ pc = "DISPATCHING_TOOLS"
    /\ result = NoResult
    /\ \E proc \in ProcsFor(tool_calls[idx], Procs) :
        LET r == execute_tool_call(tool_calls[idx], proc, fs)
        IN  /\ ~r.ok
            /\ executed' = Append(executed, Entry(tool_calls[idx], proc, r))
            /\ fs' = r.fs
            /\ result' = JStr(<<"e", "r", "r", "o", "r">>)
            /\ UNCHANGED <<pc, messages, tool_calls, idx, stdout, stderr,
                           exit_status, rounds, sent>>

\* faulty variant: a tool call that raises undoes what its batch did
ToolRaisesAndRollsBack ==
    /\ pc = "DISPATCHING_TOOLS"
    /\ result = NoResult
    /\ \E proc \in ProcsFor(tool_calls[idx], Procs) :
        LET r == execute_tool_call(tool_calls[idx], proc, fs)
        IN  /\ ~r.ok
            /\ executed' = Append(executed, Entry(tool_calls[idx], proc, r))
            /\ fs' = IF idx > 1 THEN executed[Len(executed) - idx + 2].before ELSE r.fs
            /\ Abort(r.error)
            /\ UNCHANGED <<messages, tool_calls, idx, result, stdout, rounds, sent>>

\* faulty variant: a tool call that raises is made again
ToolRaisesAndRetries ==
    /\ pc = "DISPATCHING_TOOLS"
    /\ result = NoResult
    /\ \E proc \in ProcsFor(tool_calls[idx], Procs) :
        LET r == execute_tool_call(tool_calls[idx], proc, fs)
        IN  /\ ~r.ok
            /\ executed' = Append(executed, Entry(tool_calls[idx], proc, r))
            /\ fs' = r.fs
            /\ UNCHANGED loopVars

\* result = execute_tool_call(tool_call), which raises
ToolRaises ==
    /\ pc = "DISPATCHING_TOOLS"
    /\ result = NoResult
    /\ \E proc \in ProcsFor(tool_calls[idx], Procs) :
        LET r == execute_tool_call(tool_calls[idx], proc, fs)
        IN  /\ ~r.ok
            /\ executed' = Append(executed, Entry(tool_calls[idx], proc, r))
            /\ fs' = r.fs
            /\ Abort(r.error)
            /\ UNCHANGED <<messages, tool_calls, idx, result, stdout, rounds, sent>>

\* faulty variant: the loop gives up once a batch is over (max_turns = 1)
AppendResultMaxTurns ==
    /\ pc = "DISPATCHING_TOOLS"
    /\ result # NoResult
    /\ messages' = Append(messages, ToolMessage(tool_calls[idx], result))
    /\ result' = NoResult
    /\ idx' = idx + 1
    /\ pc' = IF idx = Len(tool_calls) THEN "DONE" ELSE pc
    /\ exit_status' = IF idx = Len(tool_calls) THEN 0 ELSE exit_status
    /\ UNCHANGED <<tool_calls, fs, stdout, stderr, rounds, executed, sent>>

\* messages.append of the tool result; then the next tool call of the batch,
\* or the next iteration of the while loop
AppendResult ==
    /\ pc = "DISPATCHING_TOOLS"
    /\ result # NoResult
    /\ messages' = Append(messages, ToolMessage(tool_calls[idx], result))
    /\ result' = NoResult
    /\ idx' = idx + 1
    /\ pc' = IF idx = Len(tool_calls) THEN "AWAITING_MODEL" ELSE pc
    /\ UNCHANGED <<tool_calls, fs, stdout, stderr, exit_status, rounds, executed,
                   sent>>

Next ==
    \/ ModelRaises
    \/ ModelAnswersNothing
    \/ ModelRequestsTools
    \/ ModelAnswers
    \/ ToolReturns
    \/ ToolRaises
    \/ AppendResult

Spec == Init /\ [][Next]_vars

----------------------------------------------------------------------------
(* The tools on their own: execute_tool_call applied to a wider set of     *)
(* requests than the agent loop's, a bounded number of times               *)

RichPaths == {PathF, PathD, PathDF, PathDEF}

RichContents ==
    {JStr(<<>>),
     JStr(<<"a">>),
     JStr(<<"a", "\n", "b", "\n">>),
     JStr(<<"a", "\r", "b">>),
     JStr(<<"\r", "\n">>),
     JNum(<<"5">>),
     PyNone}

RichToolCalls ==
    ToolCalls
        \cup {WriteCall(1, path, content) : path \in RichPaths, content \in RichContents}
        \cup {ReadCall(2, path) : path \in RichPaths}
        \cup {ToolCall(3, NameRead, Dict(NoFields)),
              ToolCall(3, NameWrite, Dict([file_path |-> JStr(<<>>),
                                           content |-> JStr(<<"a">>)])),
              ToolCall(3, NameRun, Dict(NoFields)),
              ToolCall(3, NameRun, ListArguments)}

RichProcs ==
    Procs \cup {Proc(<<"a", "\n">>, <<>>, 0, {}), Proc(<<>>, <<>>, 1, {PathF})}

RichFilesystems ==
    InitialFilesystems \cup {Put(FsEmpty, PathF, FileNode(<<"x", "\r", "\n">>))}

ToolInit == Start(RichFilesystems)

\* one call of execute_tool_call
Invoke(tool_call, proc) ==
    LET r == execute_tool_call(tool_call, proc, fs)
    IN  /\ executed' = Append(executed, Entry(tool_call, proc, r))
        /\ fs' = r.fs
        /\ UNCHANGED loopVars

ToolInvoke ==
    /\ Len(executed) < MaxCalls
    /\ \E tool_call \in RichToolCalls :
           \E proc \in ProcsFor(tool_call, RichProcs) : Invoke(tool_call, proc)

ToolSpec == ToolInit /\ [][ToolInvoke]_vars

----------------------------------------------------------------------------
(* The Bash tool on its own: one shell command, over every captured        *)
(* standard output, standard error and exit code within the bounds         *)

OutputAlphabet == {"a", " ", "\n"}

ReturnCodes == {0, 3, 10, 127, -9}

BashInvoke ==
    /\ executed = <<>>
    /\ \E out \in TextsUpTo(OutputAlphabet, MaxStrLen) :
       \E err \in TextsUpTo(OutputAlphabet, MaxStrLen) :
       \E returncode \in ReturnCodes :
           Invoke(BashCall(1), Proc(out, err, returncode, {}))

BashSpec == ToolInit /\ [][BashInvoke]_vars

----------------------------------------------------------------------------
(* The dispatch on its own: one call of execute_tool_call for every        *)
(* spelling of every tool name in upper and lower case, and for names that *)
(* are close to one                                                        *)

UpperChar(c) ==
    IF \E i \in 1..26 : LowerLetters[i] = c
    THEN UpperLetters[CHOOSE i \in 1..26 : LowerLetters[i] = c]
    ELSE c

\* the spellings of a text, each letter in upper or in lower case
RECURSIVE CaseVariants(_)
CaseVariants(s) ==
    IF s = <<>> THEN {<<>>}
    ELSE {<<c>> \o t : c \in {s[1], UpperChar(s[1])}, t \in CaseVariants(Tail(s))}

AllUpper(s) == [i \in 1..Len(s) |-> UpperChar(s[i])]

RegisteredNames == ReadNames \cup WriteNames \cup BashNames

\* names that differ from a registered one by a character added or left out
NearNames ==
    UNION {{a \o <<c>> : c \in {" ", "s", "_"}}
               \cup {<<c>> \o a : c \in {" ", "s", "_"}}
               \cup {SubSeq(a, 1, Len(a) - 1), SubSeq(a, 2, Len(a)),
                      AllUpper(SubSeq(a, 1, Len(a) - 1)), AllUpper(a) \o <<"S">>}
           : a \in RegisteredNames}

OtherNames ==
    {<<>>, NameFoo, <<"s", "h">>, <<"e", "x", "e", "c">>,
     <<"e", "x", "e", "c", "u", "t", "e">>, <<"E", "x", "e", "c", "u", "t", "e">>,
     <<"r", "e", "a", "d", "-", "f", "i", "l", "e">>,
     <<"r", "e", "a", "d", " ", "f", "i", "l", "e">>,
     <<"r", "e", "a", "d", "w", "r", "i", "t", "e">>}

Names == UNION {CaseVariants(a) : a \in RegisteredNames} \cup NearNames \cup OtherNames

\* arguments on which each tool answers in its own way
NameArguments == Dict([file_path |-> JStr(PathF)])

NameInvoke ==
    /\ executed = <<>>
    /\ \E name \in Names :
           \E proc \in ProcsFor(ToolCall(1, name, NameArguments), Procs) :
               Invoke(ToolCall(1, name, NameArguments), proc)

NameSpec == ToolInit /\ [][NameInvoke]_vars

----------------------------------------------------------------------------
(* The agent loop on tool requests that lack a required argument or whose  *)
(* arguments are no JSON text                                              *)

IncompleteToolCalls ==
    {ToolCall(1, NameRead, Dict(NoFields)),
     ToolCall(1, NameWriteFile, Dict([content |-> JStr(<<"a">>)])),
     ToolCall(2, NameWrite, Dict([file_path |-> JStr(PathDF)])),
     ToolCall(2, NameWrite, Dict([file_path |-> JStr(PathF), content |-> PyNone])),
     ToolCall(3, NameRun, Dict(NoFields))}

UnparsableToolCalls ==
    {ToolCall(1, NameWriteFile, MalformedArguments),
     ToolCall(2, NameRun, MalformedArguments)}

CompleteToolCalls == {WriteCall(3, PathF, JStr(<<"a">>))}

IncompleteBatches ==
    UNION {[1..k -> IncompleteToolCalls \cup UnparsableToolCalls \cup CompleteToolCalls]
           : k \in 1..MaxBatch}

IncompleteMessages == [content : ContentsWithTools, tool_calls : IncompleteBatches]

ModelRequestsIncomplete == RequestTools(IncompleteMessages)

IncompleteNext ==
    \/ ModelRaises
    \/ ModelAnswersNothing
    \/ ModelRequestsIncomplete
    \/ ModelAnswers
    \/ ToolReturns
    \/ ToolRaises
    \/ AppendResult

IncompleteSpec == Init /\ [][IncompleteNext]_vars

----------------------------------------------------------------------------
(* The agent loop where every call returns and the model service ends up   *)
(* answering without a tool request: a response that asks for tools comes  *)
(* only while another response is still to come within MaxRounds, and      *)
(* every step that can be taken is taken                                   *)

FairToolCalls ==
    {WriteCall(2, PathDF, JStr(<<"a">>)),
     BashCall(3),
     ToolCall(1, NameFoo, Dict(NoFields))}

FairBatches == UNION {[1..k -> FairToolCalls] : k \in 1..MaxBatch}

FairMessages == [content : ContentsWithTools, tool_calls : FairBatches]

ModelRequestsToolsAgain ==
    /\ rounds < MaxRounds - 1
    /\ RequestTools(FairMessages)

FairNext ==
    \/ ModelRaises
    \/ ModelAnswersNothing
    \/ ModelRequestsToolsAgain
    \/ ModelAnswers
    \/ ToolReturns
    \/ ToolRaises
    \/ AppendResult

FairSpec == Init /\ [][FairNext]_vars /\ WF_vars(FairNext)

----------------------------------------------------------------------------
(* Reading the conversation and the history *)

AssistantPositions == {i \in 1..Len(messages) : messages[i].role = "assistant"}
ToolPositions == {i \in 1..Len(messages) : messages[i].role = "tool"}

RequestsOf(a) ==
    IF "tool_calls" \in DOMAIN messages[a] THEN messages[a].tool_calls ELSE <<>>

\* the number of tool results that directly follow position a
ResultsAfter(a) ==
    Max({n \in 0..(Len(messages) - a) :
            \A i \in 1..n : messages[a + i].role = "tool"})

\* the number of tool results before position a
ResultsBefore(a) == Cardinality({i \in ToolPositions : i < a})

LastAssistant == Max(AssistantPositions)

Resolvable(name) == Lower(name) \in ReadNames \cup WriteNames \cup BashNames

\* the text of a Python value that is a string, the empty text otherwise
TextOrEmpty(value) == IF value.t = "str" THEN value.v ELSE <<>>

----------------------------------------------------------------------------
\* C1: when the first response asks for no tool, the run is in DONE after
\* exactly one round-trip, with exit status 0, and standard output holds
\* exactly the assistant's text (the empty text when it is absent), once.
C1_FinalAnswerAfterOneRoundTrip ==
    (/\ Len(messages) >= 2
     /\ messages[2].role = "assistant"
     /\ RequestsOf(2) = <<>>)
    => /\ pc = "DONE"
       /\ rounds = 1
       /\ Len(messages) = 2
       /\ stdout = <<TextOrEmpty(messages[2].content)>>
       /\ stderr = <<>>
       /\ exit_status = 0
       /\ executed = <<>>
       /\ ~ENABLED Next

C1_Witness ==
    /\ pc = "DONE"
    /\ rounds = 1
    /\ messages[2].content = JStr(<<"o", "\n">>)
    /\ stdout = <<<<"o", "\n">>>>

\* C2: the tool results that follow an assistant turn are, in order, the
\* results of its requests: the i-th carries the i-th request's id and the text
\* its execution returned; all k are there once the batch is over; and a
\* request is executed only when every earlier result has been appended.
C2_ResultsFollowRequestsInOrder ==
    /\ \A a \in AssistantPositions :
        LET requests == RequestsOf(a)
            n == ResultsAfter(a)
            base == ResultsBefore(a)
        IN  /\ n <= Len(requests)
            /\ \A i \in 1..n :
                /\ base + i <= Len(executed)
                /\ executed[base + i].call = requests[i]
                /\ executed[base + i].ok
                /\ messages[a + i] =
                       [role |-> "tool", tool_call_id |-> requests[i].id,
                        content |-> JStr(executed[base + i].text)]
            /\ (a # LastAssistant \/ pc \in {"AWAITING_MODEL", "DONE"})
                   => n = Len(requests)
    /\ Len(executed) - Cardinality(ToolPositions) \in {0, 1}
    /\ (Len(executed) - Cardinality(ToolPositions) = 1)
           => \/ pc = "FAILED" /\ ~executed[Len(executed)].ok
              \/ /\ pc = "DISPATCHING_TOOLS"
                 /\ result = JStr(executed[Len(executed)].text)
    /\ (pc = "DISPATCHING_TOOLS" /\ result = NoResult)
           => idx = ResultsAfter(LastAssistant) + 1

C2_Witness ==
    /\ pc = "AWAITING_MODEL"
    /\ Len(messages) = 4
    /\ Len(RequestsOf(2)) = 2
    /\ RequestsOf(2)[1].id # RequestsOf(2)[2].id
    /\ messages[3].role = "tool" /\ messages[3].tool_call_id = RequestsOf(2)[1].id
    /\ messages[4].role = "tool" /\ messages[4].tool_call_id = RequestsOf(2)[2].id
    /\ messages[3].content # messages[4].content

\* C3: the conversation is user, then (assistant, tool results)*: the first
\* turn is the only user turn, and every tool result follows an assistant turn,
\* with only tool results in between, that requested its id.
C3_ConversationShape ==
    /\ Len(messages) >= 1
    /\ messages[1].role = "user"
    /\ \A i \in 2..Len(messages) : messages[i].role \in {"assistant", "tool"}
    /\ Len(messages) >= 2 => messages[2].role = "assistant"
    /\ \A i \in ToolPositions :
        \E a \in AssistantPositions :
            /\ a < i
            /\ \A j \in (a + 1)..(i - 1) : messages[j].role = "tool"
            /\ \E q \in 1..Len(RequestsOf(a)) :
                   RequestsOf(a)[q].id = messages[i].tool_call_id

C3_Witness ==
    /\ Len(messages) >= 6
    /\ messages[2].role = "assistant"
    /\ messages[3].role = "tool"
    /\ messages[4].role = "assistant"
    /\ messages[5].role = "tool"
    /\ messages[6].role = "tool"

\* C4: a tool request that raises is the last thing the run does: it is in
\* FAILED with exit status 1, the later requests of the batch are not executed,
\* the conversation holds the results of the earlier requests only, and no
\* further model request is sent.
C4_HardFailureStopsTheBatch ==
    \A j \in 1..Len(executed) :
        ~executed[j].ok =>
            /\ j = Len(executed)
            /\ pc = "FAILED"
            /\ exit_status = 1
            /\ stderr = <<executed[j].error>>
            /\ result = NoResult
            /\ LET a == LastAssistant
                   n == ResultsAfter(a)
               IN  /\ a + n = Len(messages)
                   /\ idx = n + 1
                   /\ idx <= Len(RequestsOf(a))
                   /\ executed[j].call = RequestsOf(a)[idx]
            /\ Cardinality(ToolPositions) = j - 1
            /\ rounds = Cardinality(AssistantPositions)
            /\ ~ENABLED Next

C4_Witness ==
    /\ pc = "FAILED"
    /\ Len(tool_calls) = 2
    /\ idx = 1
    /\ Len(executed) = 1
    /\ executed[1].error = "content parameter is missing"
    /\ Len(messages) = 2

HasUnresolvable ==
    \E a \in AssistantPositions :
        \E q \in 1..Len(RequestsOf(a)) : ~Resolvable(RequestsOf(a)[q].name)

\* C5: once an assistant turn asks for a tool whose name is no registered name
\* or alias, nothing is ever written on standard output, and the run is either
\* failed with exit status 1 or still dispatching that batch, with the unknown
\* request ahead and a step to take (a result to append, or a request to run).
C5_UnknownToolAbortsTheRun ==
    HasUnresolvable =>
        /\ stdout = <<>>
        /\ \/ pc = "FAILED" /\ exit_status = 1
           \/ /\ pc = "DISPATCHING_TOOLS"
              /\ exit_status = -1
              /\ \E q \in idx..Len(tool_calls) : ~Resolvable(tool_calls[q].name)
              /\ \/ result # NoResult /\ ENABLED AppendResult
                 \/ /\ result = NoResult
                    /\ \E proc \in ProcsFor(tool_calls[idx], Procs) :
                           execute_tool_call(tool_calls[idx], proc, fs).ok \in BOOLEAN

C5_Witness ==
    /\ HasUnresolvable
    /\ pc = "FAILED"
    /\ exit_status = 1
    /\ Len(executed) >= 3
    /\ executed[Len(executed)].error = "Unsupported function"
    /\ Cardinality(AssistantPositions) = 2

\* the j-th tool result of the conversation
NthToolPosition(j) ==
    CHOOSE i \in ToolPositions : Cardinality({k \in ToolPositions : k <= i}) = j

\* the entry is a shell command that was launched
BashLaunched(e) ==
    /\ Lower(e.call.name) \in BashNames
    /\ e.call.arguments.json = "dict"
    /\ Truthy(Get(e.call.arguments.fields, "command"))
    /\ e.proc.launched

\* C6: a launched shell command that exits with a non-zero code returns
\* normally with a text beginning "Exit code: <n>"; that text is the result
\* appended for it; and the loop goes on with the rest of the batch and then
\* awaits the model again.
C6_NonZeroExitIsNotAFailure ==
    \A j \in 1..Len(executed) :
        LET e == executed[j]
        IN  (BashLaunched(e) /\ e.proc.returncode # 0) =>
                /\ e.ok
                /\ IsPrefix(ExitCodePrefix \o IntToStr(e.proc.returncode), e.text)
                /\ j <= Cardinality(ToolPositions)
                       => messages[NthToolPosition(j)].content = JStr(e.text)
                /\ j > Cardinality(ToolPositions)
                       => /\ pc = "DISPATCHING_TOOLS"
                          /\ result = JStr(e.text)
                          /\ ENABLED AppendResult
                /\ (j = Len(executed) /\ j <= Cardinality(ToolPositions))
                       => \/ pc = "DISPATCHING_TOOLS" /\ idx <= Len(tool_calls)
                          \/ /\ pc = "AWAITING_MODEL"
                             /\ ResultsAfter(LastAssistant) = Len(tool_calls)
                          \/ pc = "DONE"
                          \/ /\ pc = "FAILED"
                             /\ rounds > Cardinality(AssistantPositions)

C6_Witness ==
    /\ pc = "AWAITING_MODEL"
    /\ ENABLED ModelAnswers
    /\ executed # <<>>
    /\ BashLaunched(executed[Len(executed)])
    /\ executed[Len(executed)].proc.returncode = 3
    /\ IsPrefix(ExitCodePrefix \o <<"3">>, messages[Len(messages)].content.v)

----------------------------------------------------------------------------
(* Reading the history of tool calls *)

\* the filesystem left by the j-th call
After(j) == IF j < Len(executed) THEN executed[j + 1].before ELSE fs

Argument(e, key) == Get(e.call.arguments.fields, key)

\* the entry is a Read of a named path
IsRead(e) ==
    /\ Lower(e.call.name) \in ReadNames
    /\ e.call.arguments.json = "dict"
    /\ Truthy(Argument(e, "file_path"))

\* the entry is a Write of a string to a named path
IsWrite(e) ==
    /\ Lower(e.call.name) \in WriteNames
    /\ e.call.arguments.json = "dict"
    /\ Truthy(Argument(e, "file_path"))
    /\ Argument(e, "content").t = "str"

\* str.rstrip(): trailing whitespace removed
RStrip(s) ==
    LET keep == {i \in 1..Len(s) : s[i] \notin Whitespace}
    IN  IF keep = {} THEN <<>> ELSE SubSeq(s, 1, Max(keep))

WithExitCode(returncode, output) ==
    IF returncode = 0 THEN output
    ELSE IF output = <<>> THEN ExitCodePrefix \o IntToStr(returncode)
    ELSE ExitCodePrefix \o IntToStr(returncode) \o <<"\n">> \o output

\* C7 as stated: the result is the standard output with its trailing
\* whitespace trimmed, a newline, the standard error with its trailing
\* whitespace trimmed, the whole trimmed; with "Exit code: <n>" before it, on a
\* line of its own or alone, when n is not zero.
C7_EachStreamTrimmed ==
    \A j \in 1..Len(executed) :
        LET e == executed[j]
        IN  BashLaunched(e) =>
                /\ e.ok
                /\ e.text =
                       WithExitCode(e.proc.returncode,
                           Strip(RStrip(e.proc.stdout) \o <<"\n">>
                                     \o RStrip(e.proc.stderr)))

\* C7 amended: the result is the standard output and the standard error, each
\* left out when empty and taken whole otherwise, joined by one newline, the
\* whole trimmed at both ends; with "Exit code: <n>" before it, on a line of its
\* own or alone, when n is not zero, and no such prefix when n is zero.
C7_StreamsJoinedThenTrimmed ==
    \A j \in 1..Len(executed) :
        LET e == executed[j]
            out == e.proc.stdout
            err == e.proc.stderr
            joined == IF out = <<>> THEN err
                      ELSE IF err = <<>> THEN out
                      ELSE out \o <<"\n">> \o err
        IN  BashLaunched(e) =>
                /\ e.ok
                /\ e.text = WithExitCode(e.proc.returncode, Strip(joined))
                /\ e.proc.returncode = 0 => ~IsPrefix(ExitCodePrefix, e.text)

C7_Witness ==
    /\ Len(executed) = 1
    /\ BashLaunched(executed[1])
    /\ executed[1].proc.stdout = <<"a", "\n">>
    /\ executed[1].proc.stderr = <<"a", " ">>
    /\ executed[1].proc.returncode = 3
    /\ executed[1].text = ExitCodePrefix \o <<"3", "\n", "a", "\n", "\n", "a">>

\* C8: a Read that directly follows a successful Write of a string to the same
\* path returns that string.
C8_ReadReturnsWhatWasWritten ==
    \A j \in 1..(Len(executed) - 1) :
        LET w == executed[j]
            r == executed[j + 1]
        IN  (/\ IsWrite(w)
             /\ w.ok
             /\ IsRead(r)
             /\ Argument(r, "file_path") = Argument(w, "file_path"))
            => /\ r.ok
               /\ r.text = Argument(w, "content").v

\* C9: a Write of a string to a named path succeeds unless a file stands where
\* a directory is needed or a directory stands at the path; when it succeeds the
\* directories are those there were plus every ancestor of the path (none when
\* the path has no directory part), nothing else changes, the returned text
\* contains the path, and for the empty string the file is empty and a Read that
\* follows returns the empty string.
C9_WriteCreatesDirectories ==
    \A j \in 1..Len(executed) :
        LET e == executed[j]
            path == Argument(e, "file_path").v
            content == Argument(e, "content").v
            before == e.before
            after == After(j)
        IN  IsWrite(e) =>
                /\ e.ok <=> /\ \A a \in Ancestors(path) : ~IsFile(before, a)
                            /\ ~IsDir(before, path)
                /\ e.ok =>
                    /\ Dirs(after) = Dirs(before) \cup Ancestors(path)
                    /\ IsFile(after, path)
                    /\ \A q \in DOMAIN before \ {path} :
                           q \in DOMAIN after /\ after[q] = before[q]
                    /\ DOMAIN after = DOMAIN before \cup Ancestors(path) \cup {path}
                    /\ Contains(e.text, path)
                    /\ content = <<>> =>
                        /\ after[path].data = <<>>
                        /\ (/\ j < Len(executed)
                            /\ IsRead(executed[j + 1])
                            /\ Argument(executed[j + 1], "file_path").v = path)
                           => /\ executed[j + 1].ok
                              /\ executed[j + 1].text = <<>>

C9_Witness ==
    /\ Len(executed) = 2
    /\ executed[1].call = WriteCall(1, PathDEF, JStr(<<>>))
    /\ executed[1].before = FsEmpty
    /\ executed[1].ok
    /\ executed[2].call = ReadCall(2, PathDEF)
    /\ executed[2].ok
    /\ executed[2].text = <<>>
    /\ Dirs(fs) = {PathD, <<"d", "/", "e">>}
    /\ fs[PathDEF] = FileNode(<<>>)

\* C10: after two successful Writes in a row to the same path the file holds
\* exactly the second content.
C10_SecondWriteReplacesFirst ==
    \A j \in 1..(Len(executed) - 1) :
        LET w1 == executed[j]
            w2 == executed[j + 1]
            path == Argument(w2, "file_path").v
        IN  (/\ IsWrite(w1) /\ w1.ok
             /\ IsWrite(w2) /\ w2.ok
             /\ Argument(w1, "file_path") = Argument(w2, "file_path"))
            => After(j + 1)[path] = FileNode(Argument(w2, "content").v)

C10_Witness ==
    /\ Len(executed) = 2
    /\ executed[1].call = WriteCall(1, PathF, JStr(<<"a", "\n", "b", "\n">>))
    /\ executed[1].ok
    /\ executed[2].call = WriteCall(1, PathF, JStr(<<"a">>))
    /\ executed[2].ok
    /\ fs[PathF] = FileNode(<<"a">>)

----------------------------------------------------------------------------
\* the entry is a request to a tool that comes without a required argument
LacksArgument(e) ==
    /\ e.call.type = "function"
    /\ e.call.arguments.json = "dict"
    /\ \/ Lower(e.call.name) \in ReadNames /\ Argument(e, "file_path") = PyNone
       \/ /\ Lower(e.call.name) \in WriteNames
          /\ PyNone \in {Argument(e, "file_path"), Argument(e, "content")}
       \/ Lower(e.call.name) \in BashNames /\ Argument(e, "command") = PyNone

\* the error that names the argument the request lacks
MissingParameter(e) ==
    IF Lower(e.call.name) \in BashNames THEN "command parameter is missing"
    ELSE IF Argument(e, "file_path") = PyNone THEN "file_path parameter is missing"
    ELSE "content parameter is missing"

\* C11: a request to Read without file_path, to Write without file_path or
\* with content absent or null, or to the shell without command raises the
\* missing-parameter error whatever the shell would have done, leaves the
\* filesystem as it was (no directory, no file, no change, no process), and is
\* the last thing the run does: it is in FAILED with exit status 1.
C11_MissingArgumentFailsBeforeAnyEffect ==
    \A j \in 1..Len(executed) :
        LET e == executed[j]
        IN  LacksArgument(e) =>
                /\ ~e.ok
                /\ e.error = MissingParameter(e)
                /\ \A proc \in Procs :
                       execute_tool_call(e.call, proc, e.before)
                           = Fail(MissingParameter(e), e.before)
                /\ After(j) = e.before
                /\ j = Len(executed)
                /\ fs = e.before
                /\ pc = "FAILED"
                /\ exit_status = 1
                /\ stderr = <<MissingParameter(e)>>

\* a Write to d/f without content, after a Write to f: d is not created
C11_Witness ==
    /\ pc = "FAILED"
    /\ Len(executed) = 2
    /\ executed[1].ok
    /\ LacksArgument(executed[2])
    /\ executed[2].call.arguments.fields = [file_path |-> JStr(PathDF)]
    /\ executed[2].error = "content parameter is missing"
    /\ PathD \notin DOMAIN fs

----------------------------------------------------------------------------
\* C12: standard output holds one text, the final answer, exactly when the run
\* is in DONE, and then the exit status is 0 and standard error is empty; in
\* FAILED it holds nothing, the exit status is 1 and standard error holds one
\* message; while the run is going on both are empty. So the text of a turn
\* that asks for tools and the text of a tool result are never printed, and no
\* run prints and fails.
C12_FinalAnswerOrNothing ==
    /\ pc \in {"AWAITING_MODEL", "DISPATCHING_TOOLS", "DONE", "FAILED"}
    /\ pc = "DONE" =>
           /\ exit_status = 0
           /\ stderr = <<>>
           /\ messages[Len(messages)].role = "assistant"
           /\ RequestsOf(Len(messages)) = <<>>
           /\ stdout = <<TextOrEmpty(messages[Len(messages)].content)>>
    /\ pc = "FAILED" =>
           /\ exit_status = 1
           /\ stdout = <<>>
           /\ Len(stderr) = 1
    /\ pc \in {"AWAITING_MODEL", "DISPATCHING_TOOLS"} =>
           /\ exit_status = -1
           /\ stdout = <<>>
           /\ stderr = <<>>
    /\ (stdout # <<>>) = (pc = "DONE")

\* a final answer that differs from the text of the turn that asked for
\* tools and from the tool's result
C12_Witness ==
    /\ pc = "DONE"
    /\ Len(messages) = 4
    /\ messages[2].content = JStr(<<"o", "k">>)
    /\ messages[3].role = "tool"
    /\ messages[3].content # JStr(<<"o", "\n">>)
    /\ messages[4].content = JStr(<<"o", "\n">>)
    /\ stdout = <<<<"o", "\n">>>>

\* C13: when a response carries no choices the run is in FAILED with exit
\* status 1 and nothing on standard output; no assistant turn was appended for
\* that response (there is one request more than there are assistant turns,
\* and the conversation ends with the user's turn or with the last result of a
\* whole batch), and no tool was executed for it (every execution has its
\* result in the conversation); nothing more happens.
C13_NoChoicesIsAFailure ==
    ("No choices in response" \in {stderr[i] : i \in 1..Len(stderr)}) =>
        /\ pc = "FAILED"
        /\ exit_status = 1
        /\ stderr = <<"No choices in response">>
        /\ stdout = <<>>
        /\ rounds = Cardinality(AssistantPositions) + 1
        /\ messages[Len(messages)].role \in {"user", "tool"}
        /\ AssistantPositions # {} =>
               ResultsAfter(LastAssistant) = Len(RequestsOf(LastAssistant))
        /\ Len(executed) = Cardinality(ToolPositions)
        /\ \A j \in 1..Len(executed) : executed[j].ok
        /\ result = NoResult
        /\ ~ENABLED Next

C13_Witness ==
    /\ stderr = <<"No choices in response">>
    /\ pc = "FAILED"
    /\ rounds = 2
    /\ Len(messages) = 4
    /\ Len(executed) = 2

----------------------------------------------------------------------------
\* the position of the n-th assistant turn
NthAssistant(n) ==
    CHOOSE a \in AssistantPositions :
        Cardinality({b \in AssistantPositions : b <= a}) = n

\* the conversation as it stood when the n-th request was made: all that
\* comes before the turn that answers it, or all of it when none answers
StoodAt(n) ==
    IF n <= Cardinality(AssistantPositions)
    THEN SubSeq(messages, 1, NthAssistant(n) - 1)
    ELSE messages

\* C14: one request is recorded for each call of the model; the n-th carries
\* the whole conversation as it stood, which is a prefix of the conversation
\* now; the conversation of a request is a strict prefix of the next one's;
\* and every request carries the same declarations of the three tools.
C14_ConversationSentInFullAppendOnly ==
    /\ Len(sent) = rounds
    /\ Len(TOOLS) = 3
    /\ {TOOLS[k].name : k \in 1..3} = {"Read", "Write", "Bash"}
    /\ \A n \in 1..Len(sent) :
           /\ sent[n].tools = TOOLS
           /\ sent[n].messages = StoodAt(n)
           /\ IsPrefix(sent[n].messages, messages)
           /\ sent[n].messages[1].role = "user"
    /\ \A n \in 1..(Len(sent) - 1) :
           /\ IsPrefix(sent[n].messages, sent[n + 1].messages)
           /\ Len(sent[n].messages) < Len(sent[n + 1].messages)
           /\ sent[n + 1].messages[Len(sent[n].messages) + 1].role = "assistant"
    /\ pc = "AWAITING_MODEL" =>
           \A n \in 1..Len(sent) : Len(sent[n].messages) < Len(messages)

\* a second request that carries the first request's turn, the assistant's
\* turn and two results
C14_Witness ==
    /\ Len(sent) = 2
    /\ Len(sent[1].messages) = 1
    /\ Len(sent[2].messages) = 4
    /\ sent[2].messages[4].role = "tool"
    /\ sent[2].tools = sent[1].tools

----------------------------------------------------------------------------
\* two texts are the same but for the case of their letters
SameIgnoringCase(a, b) ==
    /\ Len(a) = Len(b)
    /\ \A i \in 1..Len(a) :
           \/ a[i] = b[i]
           \/ \E k \in 1..26 : {a[i], b[i]} = {UpperLetters[k], LowerLetters[k]}

IsOneOf(name, aliases) == \E a \in aliases : SameIgnoringCase(name, a)

ReadAliases ==
    {<<"r", "e", "a", "d">>, <<"r", "e", "a", "d", "f", "i", "l", "e">>,
     <<"r", "e", "a", "d", "_", "f", "i", "l", "e">>}

WriteAliases ==
    {<<"w", "r", "i", "t", "e">>, <<"w", "r", "i", "t", "e", "f", "i", "l", "e">>,
     <<"w", "r", "i", "t", "e", "_", "f", "i", "l", "e">>}

ExecuteAliases ==
    {<<"b", "a", "s", "h">>, <<"s", "h", "e", "l", "l">>,
     <<"c", "o", "m", "m", "a", "n", "d">>, <<"r", "u", "n">>}

\* the tool that answered a request made with NameArguments
Answered(e) ==
    IF e.ok \/ e.error \in {"File not found", "Error reading file"} THEN "Read"
    ELSE IF e.error = "content parameter is missing" THEN "Write"
    ELSE IF e.error = "command parameter is missing" THEN "Execute"
    ELSE IF e.error = "Unsupported function" THEN "none"
    ELSE "other"

\* C15: a request is answered by Read exactly when its name is, but for the
\* case of its letters, read, readfile or read_file; by Write exactly when it
\* is write, writefile or write_file; by the shell exactly when it is bash,
\* shell, command or run; by no tool (unsupported function) exactly when it is
\* none of these; and no name is an alias of two tools.
C15_NamesResolveIgnoringCase ==
    \A j \in 1..Len(executed) :
        LET e == executed[j]
            name == e.call.name
        IN  e.call.arguments = NameArguments =>
                /\ (Answered(e) = "Read") = IsOneOf(name, ReadAliases)
                /\ (Answered(e) = "Write") = IsOneOf(name, WriteAliases)
                /\ (Answered(e) = "Execute") = IsOneOf(name, ExecuteAliases)
                /\ (Answered(e) = "none")
                       = ~IsOneOf(name, ReadAliases \cup WriteAliases \cup ExecuteAliases)
                /\ Answered(e) # "other"
                /\ Cardinality({aliases \in {ReadAliases, WriteAliases, ExecuteAliases} :
                                    IsOneOf(name, aliases)}) <= 1

\* ReAd_FiLe is answered by Read, which returns what f holds
C15_Witness ==
    /\ Len(executed) = 1
    /\ executed[1].call.name = <<"R", "e", "A", "d", "_", "F", "i", "L", "e">>
    /\ executed[1].call.arguments = NameArguments
    /\ executed[1].ok
    /\ executed[1].text = <<"x", "\n">>

----------------------------------------------------------------------------
\* the tool requests of all the assistant turns, in the order they were made
RECURSIVE RequestsUpTo(_)
RequestsUpTo(i) ==
    IF i = 0 THEN <<>>
    ELSE RequestsUpTo(i - 1)
             \o (IF messages[i].role = "assistant" THEN RequestsOf(i) ELSE <<>>)

AllRequests == RequestsUpTo(Len(messages))

\* C16: the j-th execution is that of the j-th tool request made, so that no
\* request is executed twice; no two model requests carry the same
\* conversation; and a request whose arguments are no JSON text raises the
\* parse error whatever its tool would have done, leaves the filesystem as it
\* was, and is the last thing the run does: FAILED, no turn appended after
\* the results of the requests before it, and no model request after the one
\* that brought it.
C16_NothingIsRetried ==
    /\ Len(executed) <= Len(AllRequests)
    /\ \A j \in 1..Len(executed) : executed[j].call = AllRequests[j]
    /\ \A n \in 1..Len(sent) : \A m \in 1..Len(sent) :
           sent[n].messages = sent[m].messages => n = m
    /\ \A j \in 1..Len(executed) :
        LET e == executed[j]
        IN  e.call.arguments.json = "malformed" =>
                /\ ~e.ok
                /\ e.error = "Failed to parse arguments"
                /\ \A proc \in Procs :
                       execute_tool_call(e.call, proc, e.before)
                           = Fail("Failed to parse arguments", e.before)
                /\ fs = e.before
                /\ j = Len(executed)
                /\ pc = "FAILED"
                /\ stderr = <<"Failed to parse arguments">>
                /\ Cardinality(ToolPositions) = j - 1
                /\ Len(messages) = LastAssistant + ResultsAfter(LastAssistant)
                /\ ResultsAfter(LastAssistant) = idx - 1
                /\ RequestsOf(LastAssistant)[idx] = e.call
                /\ Len(sent) = Cardinality(AssistantPositions)
                /\ rounds = Len(sent)
                /\ ~ENABLED IncompleteNext

\* the second request of the second batch is a shell command whose
\* arguments do not parse; d, which the command would remove, is still there
C16_Witness ==
    /\ pc = "FAILED"
    /\ Len(sent) = 2
    /\ Len(executed) = 3
    /\ executed[3].call = ToolCall(2, NameRun, MalformedArguments)
    /\ executed[3].proc.launched
    /\ Len(messages) = 5
    /\ messages[5].role = "tool"
    /\ PathD \in DOMAIN fs

----------------------------------------------------------------------------
\* every response so far asked for tools, and every tool asked for has
\* returned and has its result in the conversation
EveryRoundSucceeded ==
    /\ AssistantPositions # {}
    /\ \A a \in AssistantPositions :
           /\ RequestsOf(a) # <<>>
           /\ ResultsAfter(a) = Len(RequestsOf(a))
    /\ Len(executed) = Cardinality(ToolPositions)
    /\ \A j \in 1..Len(executed) : executed[j].ok

\* C17: after N responses that all asked for tools, all of which succeeded,
\* the loop has not stopped: either it awaits the model, N requests were made,
\* and the (N+1)-th can be made with either kind of answer (as long as the
\* model's horizon MaxRounds is not reached); or the (N+1)-th was made,
\* with the whole conversation, and it is that request which failed.
C17_NoBoundOnRoundTrips ==
    EveryRoundSucceeded =>
        LET N == Cardinality(AssistantPositions)
        IN  \/ /\ rounds = N
               /\ Len(sent) = N
               /\ pc = "AWAITING_MODEL"
               /\ exit_status = -1
               /\ stderr = <<>>
               /\ rounds < MaxRounds =>
                      ENABLED ModelRequestsTools /\ ENABLED ModelAnswers
            \/ /\ rounds = N + 1
               /\ Len(sent) = N + 1
               /\ sent[N + 1].messages = messages
               /\ pc = "FAILED"
               /\ stderr \in {<<"model request failed">>, <<"No choices in response">>}

\* the greatest number of rounds the model goes to, less one, all successful,
\* and the next request can be made
C17_Witness ==
    /\ EveryRoundSucceeded
    /\ Cardinality(AssistantPositions) = MaxRounds - 1
    /\ pc = "AWAITING_MODEL"
    /\ Len(executed) >= MaxRounds - 1
    /\ ENABLED ModelRequestsTools

----------------------------------------------------------------------------
\* C18: when every call returns and the model service ends up answering
\* without a tool request, the run reaches DONE or FAILED; and no step is
\* taken from DONE or FAILED: no model request, no tool call, no turn
\* appended, nothing printed.
C18_RunsEndAndStayEnded ==
    /\ <>(pc \in {"DONE", "FAILED"})
    /\ [][pc \notin {"DONE", "FAILED"}]_vars

\* a run that ended with a final answer after a batch of two tools
C18_Witness ==
    /\ pc = "DONE"
    /\ Len(sent) = 2
    /\ Len(executed) = 2
    /\ Len(messages) = 5
    /\ stdout # <<>>

----------------------------------------------------------------------------
\* the filesystem that the first k calls leave when made one after another
RECURSIVE Replay(_)
Replay(k) ==
    IF k = 0 THEN executed[1].before
    ELSE execute_tool_call(executed[k].call, executed[k].proc, Replay(k - 1)).fs

\* C19: when a tool request raises, the filesystem is what all the calls
\* made, this one included, leave one after another: nothing that an earlier
\* request of the batch or an earlier batch wrote, created or removed is put
\* back; and each of the earlier requests has its result in the conversation,
\* in order.
C19_FailureKeepsEarlierEffects ==
    (executed # <<>> /\ ~executed[Len(executed)].ok) =>
        LET j == Len(executed)
        IN  /\ pc = "FAILED"
            /\ \A k \in 1..(j - 1) :
                   /\ executed[k].ok
                   /\ executed[k + 1].before = Replay(k)
            /\ fs = Replay(j)
            /\ Cardinality(ToolPositions) = j - 1
            /\ \A k \in 1..(j - 1) :
                   messages[NthToolPosition(k)] =
                       [role |-> "tool", tool_call_id |-> executed[k].call.id,
                        content |-> JStr(executed[k].text)]

\* a shell command removed d in the first batch, a Write made d/f in the
\* second, and the request after it is to an unknown tool
C19_Witness ==
    /\ pc = "FAILED"
    /\ Len(executed) = 3
    /\ IsFile(executed[1].before, PathD)
    /\ BashLaunched(executed[1])
    /\ executed[2].call.name = NameWriteFile
    /\ executed[3].error = "Unsupported function"
    /\ Len(messages) = 5
    /\ IsDir(fs, PathD)
    /\ fs[PathDF] = FileNode(<<"a">>)

====
